---- MODULE Spec2Model ----
(***************************************************************************)
(* Model of the datalake entities exporter's BigQuery client               *)
(* (src/clients/bigquery.py): the migration engine create_or_update_table  *)
(* and the row reconciler insert_entities; of the catalog client           *)
(* (src/clients/port.py) and of the run loop (src/main.py).                *)
(*                                                                         *)
(* The warehouse (google.cloud.bigquery.Client) is the environment: every  *)
(* call the code awaits is one step whose outcome (success or exception)   *)
(* is chosen nondeterministically, except where the table's state decides  *)
(* it (get_table on an absent table raises NotFound, create_table on an    *)
(* existing table raises Conflict).                                        *)
(***************************************************************************)
EXTENDS Integers, Sequences, FiniteSets, TLC

VARIABLES
    auto_migrate,     \* BigQueryClient.auto_migrate, fixed at construction
    schema,           \* the derived schema handed to create_or_update_table
    table,            \* the warehouse table: [exists, schema]
    pc,               \* position inside create_or_update_table
    existing_table,   \* local Table object of create_or_update_table
    schema_changes,   \* local result of _compare_schemas
    calls,            \* warehouse calls issued by the current run, in order
    outcome,          \* how the current run ended
    run,              \* number of create_or_update_table runs started
    table0,           \* the warehouse table when the current run started
    clean,            \* no warehouse call of the current run failed unexpectedly
    prevClean,        \* the same, for the run before the current one
    removal_intent    \* field names logged as "would be removed in hard mode"

VARIABLES
    stored,               \* rows of the warehouse table: identifier -> number of rows
    entities,             \* the batch handed to insert_entities
    ipc,                  \* position inside insert_entities
    schema_fields,        \* local schema_fields of insert_entities
    existing_identifiers, \* result of _get_existing_identifiers
    rows_to_insert,       \* local rows_to_insert
    rows_to_update,       \* local rows_to_update (as prepared, before the pop)
    insert_task,          \* state of the insert_rows_json thread
    update_task,          \* state of the _execute_bulk_update coroutine
    field_sets,           \* local field_sets of _execute_bulk_update, in dict order
    group_cur,            \* index of the group whose gather is awaited
    tasks,                \* state of each _execute_single_update task, by row index
    statements,           \* UPDATE statements handed to client.query, in order
    ncalls,               \* number of insert_entities calls started
    stored0               \* the rows of the table when the current call started

VARIABLES
    port_type,        \* the type handed to _map_port_type_to_bigquery
    format,           \* the format handed to _map_port_type_to_bigquery
    field_type,       \* what _map_port_type_to_bigquery returned
    blueprint,        \* the blueprint handed to _create_schema_from_blueprint
    derived,          \* the lists _create_schema_from_blueprint returned, in call order
    entity_in,        \* the entity handed to _prepare_entity_row
    column_names,     \* the schema_fields handed to _prepare_entity_row
    prepared          \* what _prepare_entity_row returned

VARIABLES
    now,               \* the clock (datetime.now()), in ticks
    token_expiry_time, \* PortClient.token_expiry_time
    port_headers,      \* PortClient.port_headers
    cat_pc,            \* position inside get_blueprint / search_entities
    requests,          \* requests the current call of the client has sent, in order
    responses,         \* bodies of the search responses of the current call, in order
    yielded,           \* pages the current search_entities has yielded, in order
    current_query,     \* local current_query of search_entities
    cat_result,        \* how the last call of the client ended
    cat_calls          \* number of calls of the client started

VARIABLES
    blueprints,        \* config_data.blueprints (identifiers), in list order
    mpc,               \* position inside main
    bp_idx,            \* number of blueprints export_blueprint was called for
    export_pc,         \* position inside export_blueprint
    pages_seen,        \* pages the current export_blueprint has received
    exports_returned,  \* number of export_blueprint calls that returned
    cleanups,          \* identifiers cleanup_duplicates was called for, in order
    failed_at          \* the call whose exception ended main

migVars == <<auto_migrate, schema, table, pc, existing_table, schema_changes,
             calls, outcome, run, table0, clean, prevClean, removal_intent>>

rowVars == <<stored, entities, ipc, schema_fields, existing_identifiers,
             rows_to_insert, rows_to_update, insert_task, update_task,
             field_sets, group_cur, tasks, statements, ncalls, stored0>>

pureVars == <<port_type, format, field_type, blueprint, derived,
              entity_in, column_names, prepared>>

catVars == <<now, token_expiry_time, port_headers, cat_pc, requests,
             responses, yielded, current_query, cat_result, cat_calls>>

mainVars == <<blueprints, mpc, bp_idx, export_pc, pages_seen,
              exports_returned, cleanups, failed_at>>

runVars == <<catVars, mainVars>>

vars == <<migVars, rowVars, pureVars, catVars, mainVars>>

----------------------------------------------------------------------------
(* Bounds *)

\* longest schema (table or derived) the model enumerates
MaxCols == 3
\* number of successive create_or_update_table runs on the table
MaxRuns == 2
\* longest entity batch handed to insert_entities
MaxBatch == 2
\* number of successive insert_entities calls on the table
MaxInsertCalls == 1
\* most entries in one sub-map of a blueprint
MaxEntries == 2
\* number of successive _create_schema_from_blueprint calls on one blueprint
MaxDerivations == 2
\* last tick of the clock
MaxTime == 3
\* most page requests of one search_entities call
MaxRequests == 3
\* number of successive calls of the catalog client
MaxCatalogCalls == 2
\* longest configured list of blueprints
MaxBlueprints == 2
\* most pages one export_blueprint receives
MaxPages == 2

----------------------------------------------------------------------------
(* Columns and schemas *)

Policies == {"weak", "balanced", "hard"}

SchemaField(n, t, m) == [name |-> n, field_type |-> t, mode |-> m]

\* The columns the model draws schemas from: four names, one of them ("a")
\* in two types so that a same-name type conflict can occur.
Cols ==
    { SchemaField("a", "STRING", "NULLABLE"),
      SchemaField("a", "FLOAT64", "NULLABLE"),
      SchemaField("b", "STRING", "NULLABLE"),
      SchemaField("c", "TIMESTAMP", "NULLABLE"),
      SchemaField("d", "STRING", "NULLABLE") }

SeqsUpTo(S, n) == UNION { [1..k -> S] : k \in 0..n }

FieldNames(s) == { s[i].name : i \in 1..Len(s) }

UniqueNames(s) == \A i, j \in 1..Len(s) : i # j => s[i].name # s[j].name

\* Schemas a warehouse table can hold (the warehouse keeps names unique).
TableSchemas == { s \in SeqsUpTo(Cols, MaxCols) : UniqueNames(s) }

\* Derived schemas handed to create_or_update_table: the list that
\* _create_schema_from_blueprint returns is never empty and is not checked
\* for repeated names.
DerivedSchemas == { s \in SeqsUpTo(Cols, MaxCols) : Len(s) >= 1 }

Absent == [exists |-> FALSE, schema |-> <<>>]

Present(s) == [exists |-> TRUE, schema |-> s]

NoChanges == [added |-> {}, removed |-> {}, unchanged |-> {}]

----------------------------------------------------------------------------
(* Pure helpers of the migration engine *)

_get_new_schema_fields(s) == FieldNames(s)

\* Mutant: the difference new - existing is lost.
_compare_schemas_none_added(existing_fields, new_fields) ==
    [ added     |-> {},
      removed   |-> IF auto_migrate = "hard"
                    THEN existing_fields \ new_fields
                    ELSE {},
      unchanged |-> existing_fields \cap new_fields ]

_compare_schemas(existing_fields, new_fields) ==
    [ added     |-> new_fields \ existing_fields,
      removed   |-> IF auto_migrate = "hard"
                    THEN existing_fields \ new_fields
                    ELSE {},
      unchanged |-> existing_fields \cap new_fields ]

\* Mutant: the copy of the table object's schema is forgotten.
AddFieldsSchema_only_new(table_schema, s, fields_to_add) ==
    SelectSeq(s, LAMBDA f : f.name \in fields_to_add)

\* Mutant: a column of the table that the derived schema also names is
\* taken from the derived schema.
AddFieldsSchema_replacing(table_schema, s, fields_to_add) ==
    [i \in 1..Len(table_schema) |->
        IF \E j \in 1..Len(s) : s[j].name = table_schema[i].name
        THEN s[CHOOSE j \in 1..Len(s) : s[j].name = table_schema[i].name]
        ELSE table_schema[i]]
      \o SelectSeq(s, LAMBDA f : f.name \in fields_to_add)

\* new_schema of _add_fields_to_table: a copy of the table object's schema
\* followed by the derived fields whose names are in fields_to_add.
AddFieldsSchema(table_schema, s, fields_to_add) ==
    table_schema \o SelectSeq(s, LAMBDA f : f.name \in fields_to_add)

\* Mutant: the filter keeps every field.
RemoveFieldsSchema_keep_all(table_schema, fields_to_remove) == table_schema

\* new_schema of _remove_fields_from_table.
RemoveFieldsSchema(table_schema, fields_to_remove) ==
    SelectSeq(table_schema, LAMBDA f : f.name \notin fields_to_remove)

\* The guard of the removal alteration (line 324).
RemovalDue(changes) == auto_migrate = "hard" /\ changes.removed # {}

----------------------------------------------------------------------------
(* The warehouse *)

\* get_table: raises NotFound on an absent table; on an existing table it
\* returns the table or fails (transport error, permission, outage).
GetTableResults == IF table.exists THEN {TRUE, FALSE} ELSE {FALSE}

\* create_table (exists_ok is left False): raises Conflict on an existing
\* table and rejects a schema with a repeated column name; otherwise it
\* creates the table or fails.
CreateTableResults(s) ==
    IF table.exists \/ ~UniqueNames(s) THEN {FALSE} ELSE {TRUE, FALSE}

\* update_table(table, ["schema"]): rejects a schema with a repeated column
\* name; otherwise it replaces the table's schema or fails.
UpdateTableResults(s) == IF UniqueNames(s) THEN {TRUE, FALSE} ELSE {FALSE}

\* Mutant: the table object is built without the schema.
NewTableObject_no_schema(s) == <<>>

\* bigquery.Table(table_ref, schema=schema): the table object handed to
\* create_table (lines 303 and 332).
NewTableObject(s) == s

\* Mutant: the weak branch is never taken.
IsWeak_never == FALSE

\* The policy test of line 297.
IsWeak == auto_migrate = "weak"

Call(op, by, s, ok) == [op |-> op, by |-> by, schema |-> s, ok |-> ok]

----------------------------------------------------------------------------
(* Row reconciler: entities, rows and the pure helpers of insert_entities *)

Ids == {"x1", "x2", "x3"}

\* Python's None, kept apart from every str value.
Null == "None"

IsStr(v) == v # Null

IsoTimestamp == "2024-01-01T00:00:00Z"

BaseKeys == {"identifier", "title", "created_at", "updated_at"}

\* The schema of the table insert_entities works on: the four base columns
\* of _create_schema_from_blueprint and three blueprint columns.
EntityTableSchema ==
    << SchemaField("identifier", "STRING", "REQUIRED"),
       SchemaField("title", "STRING", "NULLABLE"),
       SchemaField("created_at", "TIMESTAMP", "NULLABLE"),
       SchemaField("updated_at", "TIMESTAMP", "NULLABLE"),
       SchemaField("p", "STRING", "NULLABLE"),
       SchemaField("q", "TIMESTAMP", "NULLABLE"),
       SchemaField("r", "STRING", "NULLABLE") >>

RelStr(v) == [kind |-> "str", v |-> <<v>>]

RelList(v) == [kind |-> "list", v |-> v]

\* A plain property, a property with a key the table has no column for,
\* and a single relation.
Plain ==
    [properties |-> ("p" :> "v") @@ ("z" :> "v"),
     relations  |-> ("r" :> RelStr("s1"))]

\* The property-class maps the model gives an entity: the plain ones; a
\* well-formed value of a TIMESTAMP column with a many relation; a malformed
\* value of a TIMESTAMP column.
Shapes ==
    { Plain,
      [properties |-> ("p" :> "v") @@ ("q" :> IsoTimestamp),
       relations  |-> ("r" :> RelList(<<"s1", "s2">>))],
      [properties |-> ("q" :> "yesterday"),
       relations  |-> <<>>] }

\* Properties that carry the names of base columns of the table.
BaseNamed ==
    [properties |-> ("identifier" :> "x2") @@ ("title" :> "PT")
                      @@ ("created_at" :> IsoTimestamp),
     relations  |-> <<>>]

Entity(id, shape) ==
    [ identifier            |-> id,
      title                 |-> "T",
      createdAt             |-> Null,
      updatedAt             |-> IsoTimestamp,
      properties            |-> shape.properties,
      relations             |-> shape.relations,
      calculationProperties |-> <<>>,
      aggregationProperties |-> <<>>,
      mirrorProperties      |-> <<>> ]

\* The entities of the catalog: x1 and x2 with each of the maps, x3 with
\* the plain maps or with properties named like base columns.
Entities ==
    { Entity(id, sh) : id \in {"x1", "x2"}, sh \in Shapes }
      \cup { Entity("x3", sh) : sh \in {Plain, BaseNamed} }

\* Batches: at most one entity per identifier (the caller's contract).
Batches ==
    { b \in SeqsUpTo(Entities, MaxBatch) :
        \A i, j \in 1..Len(b) : i # j => b[i].identifier # b[j].identifier }

\* json.dumps of a list of strings.
RECURSIVE JsonItems(_)
JsonItems(l) ==
    IF Len(l) = 0 THEN ""
    ELSE IF Len(l) = 1 THEN "\"" \o l[1] \o "\""
    ELSE "\"" \o l[1] \o "\", " \o JsonItems(Tail(l))

JsonDumps(l) == "[" \o JsonItems(l) \o "]"

\* for k, v in m.items(): if k in schema_fields: row[k] = v
FilteredUpdate(row, m, fields) ==
    [k \in (DOMAIN m \cap fields) |-> m[k]] @@ row

\* The relations loop: a str is stored as it is, a list as its JSON text,
\* any other value is skipped.
RelationUpdate(row, rel, fields) ==
    LET keep == { k \in DOMAIN rel \cap fields : rel[k].kind \in {"str", "list"} }
    IN  [k \in keep |-> IF rel[k].kind = "str"
                        THEN rel[k].v[1]
                        ELSE JsonDumps(rel[k].v)] @@ row

_prepare_entity_row(entity, fields) ==
    LET row0 == [k \in BaseKeys |->
                    CASE k = "identifier" -> entity.identifier
                      [] k = "title"      -> entity.title
                      [] k = "created_at" -> entity.createdAt
                      [] k = "updated_at" -> entity.updatedAt]
        row1 == FilteredUpdate(row0, entity.properties, fields)
        row2 == RelationUpdate(row1, entity.relations, fields)
        row3 == FilteredUpdate(row2, entity.calculationProperties, fields)
        row4 == FilteredUpdate(row3, entity.aggregationProperties, fields)
    IN  FilteredUpdate(row4, entity.mirrorProperties, fields)

\* Mutant: the membership test of the partition is inverted.
RoutesToUpdate_inverted(entity, existing) == entity.identifier \notin existing

\* The test of line 537.
RoutesToUpdate(entity, existing) == entity.identifier \in existing

\* The loop of lines 534-540 from entity i on.
RECURSIVE Partition(_, _, _, _, _)
Partition(batch, fields, existing, i, acc) ==
    IF i > Len(batch) THEN acc
    ELSE LET row == _prepare_entity_row(batch[i], fields)
         IN  Partition(batch, fields, existing, i + 1,
                IF RoutesToUpdate(batch[i], existing)
                THEN [acc EXCEPT !.to_update = Append(@, row)]
                ELSE [acc EXCEPT !.to_insert = Append(@, row)])

\* Mutant: the identifier stays in the grouping key.
RowFieldSet_with_identifier(row) == DOMAIN row

\* identifier = row.pop("identifier"); field_set = frozenset(row.keys())
RowFieldSet(row) == DOMAIN row \ {"identifier"}

\* The loop of lines 461-466: field_sets in dict order, each group holding
\* the indices of its rows in rows_to_update order.
RECURSIVE GroupRows(_, _, _)
GroupRows(rows, i, groups) ==
    IF i > Len(rows) THEN groups
    ELSE LET fs  == RowFieldSet(rows[i])
             hit == { g \in 1..Len(groups) : groups[g].field_set = fs }
         IN  GroupRows(rows, i + 1,
                IF hit = {}
                THEN Append(groups, [field_set |-> fs, rows |-> <<i>>])
                ELSE LET g == CHOOSE g \in hit : TRUE
                     IN  [groups EXCEPT ![g].rows = Append(@, i)])

\* field_types.get(field, "STRING") over table.schema (line 469, 487).
FieldType(table_schema, field) ==
    IF \E i \in 1..Len(table_schema) : table_schema[i].name = field
    THEN LET i == CHOOSE i \in 1..Len(table_schema) :
                    /\ table_schema[i].name = field
                    /\ \A j \in (i+1)..Len(table_schema) : table_schema[j].name # field
         IN  table_schema[i].field_type
    ELSE "STRING"

\* datetime.fromisoformat(value.replace("Z", "+00:00")) accepts the value.
IsIsoformat(v) == v \in {"2024-01-01T00:00:00Z", "2024-01-01T00:00:00+00:00"}

\* The parsed datetime (the value bound instead of the string).
FromIsoformat(v) == "datetime(2024-01-01T00:00:00+00:00)"

\* Lines 489-491 raise for this row: a str of a TIMESTAMP column that
\* fromisoformat rejects (outside the try of line 497).
ParameterError(table_schema, row, fields) ==
    \E f \in fields :
        /\ FieldType(table_schema, f) = "TIMESTAMP"
        /\ IsStr(row[f])
        /\ ~IsIsoformat(row[f])

\* The statement _execute_single_update builds (lines 479-495): the SET
\* columns, one typed parameter per column, and the identifier predicate.
UpdateStatement(table_schema, identifier, row, fields, i) ==
    [ row    |-> i,
      set    |-> fields,
      params |-> [f \in fields |->
                    LET t == FieldType(table_schema, f)
                    IN  [type  |-> t,
                         value |-> IF t = "TIMESTAMP" /\ IsStr(row[f])
                                   THEN FromIsoformat(row[f])
                                   ELSE row[f]]],
      where  |-> identifier ]

StoredIds == { id \in Ids : stored[id] > 0 }

RowsIdle ==
    /\ stored = [id \in Ids |-> 0]
    /\ entities = <<>>
    /\ ipc = "idle"
    /\ schema_fields = {}
    /\ existing_identifiers = {}
    /\ rows_to_insert = <<>>
    /\ rows_to_update = <<>>
    /\ insert_task = "none"
    /\ update_task = "none"
    /\ field_sets = <<>>
    /\ group_cur = 0
    /\ tasks = <<>>
    /\ statements = <<>>
    /\ ncalls = 0
    /\ stored0 = stored

----------------------------------------------------------------------------
(* Schema mapper: _map_port_type_to_bigquery and _create_schema_from_blueprint *)

\* dict.get(k, default); a dict is a function from its keys.
Get(d, k, default) == IF k \in DOMAIN d THEN d[k] ELSE default

\* str.lower() on the strings the model hands to the mapper.
Lower(s) ==
    CASE s = "String"    -> "string"
      [] s = "NUMBER"    -> "number"
      [] s = "Boolean"   -> "boolean"
      [] s = "Date-Time" -> "date-time"
      [] s = "URL"       -> "url"
      [] OTHER           -> s

\* Truth value of an Optional[str]: None and "" are false.
Truthy(v) == v # Null /\ v # ""

\* format_mapping of lines 58-64
format_mapping ==
    ("url" :> "STRING") @@ ("email" :> "STRING") @@ ("markdown" :> "STRING") @@
    ("user" :> "STRING") @@ ("date-time" :> "TIMESTAMP")

\* type_mapping of lines 68-75
type_mapping ==
    ("string" :> "STRING") @@ ("number" :> "FLOAT64") @@ ("boolean" :> "BOOL") @@
    ("array" :> "STRING") @@ ("object" :> "STRING") @@ ("datetime" :> "TIMESTAMP")

\* Mutant: the format is not looked at.
_map_port_type_to_bigquery_no_format(t, f) ==
    Get(type_mapping, Lower(t), "STRING")

_map_port_type_to_bigquery(t, f) ==
    IF Lower(t) = "string" /\ Truthy(f)
    THEN Get(format_mapping, Lower(f), "STRING")
    ELSE Get(type_mapping, Lower(t), "STRING")

\* The types and formats the model hands to _map_port_type_to_bigquery.
PortTypes ==
    { "string", "String", "number", "NUMBER", "boolean", "Boolean", "array",
      "object", "datetime", "integer", "date-time", "" }

Formats ==
    { Null, "", "url", "URL", "email", "markdown", "user", "date-time",
      "Date-Time", "datetime", "number", "ipv4" }

\* bigquery.SchemaField(name, field_type, mode=..., description=...); the
\* description of a field built without one reads None.
DescribedField(n, t, m, d) ==
    [name |-> n, field_type |-> t, mode |-> m, description |-> d]

\* A dict in insertion order is a sequence of <<key, value>> with no key
\* twice.
Key(item) == item[1]

Val(item) == item[2]

\* Mutant: a property declared required becomes a REQUIRED column.
_create_property_fields_required(properties, required_properties) ==
    [i \in 1..Len(properties) |->
        DescribedField(Key(properties[i]),
            _map_port_type_to_bigquery(Get(Val(properties[i]), "type", "string"),
                                       Get(Val(properties[i]), "format", Null)),
            IF \E k \in 1..Len(required_properties) :
                    required_properties[k] = Key(properties[i])
            THEN "REQUIRED" ELSE "NULLABLE",
            Null)]

_create_property_fields(properties, required_properties) ==
    [i \in 1..Len(properties) |->
        DescribedField(Key(properties[i]),
            _map_port_type_to_bigquery(Get(Val(properties[i]), "type", "string"),
                                       Get(Val(properties[i]), "format", Null)),
            "NULLABLE",
            Null)]

\* Mutant: the relation's declared type is mapped like a property's.
_create_relation_fields_typed(relations) ==
    [i \in 1..Len(relations) |->
        DescribedField(Key(relations[i]),
            _map_port_type_to_bigquery(Get(Val(relations[i]), "type", "string"),
                                       Get(Val(relations[i]), "format", Null)),
            "NULLABLE",
            IF Get(Val(relations[i]), "many", FALSE)
            THEN "JSON array of " \o Key(relations[i]) \o " identifiers"
            ELSE Null)]

_create_relation_fields(relations) ==
    [i \in 1..Len(relations) |->
        DescribedField(Key(relations[i]), "STRING", "NULLABLE",
            IF Get(Val(relations[i]), "many", FALSE)
            THEN "JSON array of " \o Key(relations[i]) \o " identifiers"
            ELSE Null)]

_create_calculation_fields(calculation_properties) ==
    [i \in 1..Len(calculation_properties) |->
        DescribedField(Key(calculation_properties[i]),
            _map_port_type_to_bigquery(
                Get(Val(calculation_properties[i]), "type", "string"),
                Get(Val(calculation_properties[i]), "format", Null)),
            "NULLABLE",
            "Calculated property: "
                \o Get(Val(calculation_properties[i]), "description", ""))]

_create_aggregation_fields(aggregation_properties) ==
    [i \in 1..Len(aggregation_properties) |->
        DescribedField(Key(aggregation_properties[i]),
            _map_port_type_to_bigquery(
                Get(Val(aggregation_properties[i]), "type", "string"),
                Get(Val(aggregation_properties[i]), "format", Null)),
            "NULLABLE",
            "Aggregation property: "
                \o Get(Val(aggregation_properties[i]), "description", ""))]

_create_mirror_fields(mirror_properties) ==
    [i \in 1..Len(mirror_properties) |->
        DescribedField(Key(mirror_properties[i]), "STRING", "NULLABLE",
            "Mirror property from path: "
                \o Get(Val(mirror_properties[i]), "path", ""))]

\* The four columns every derived schema starts with (lines 208-213).
BaseColumns ==
    << DescribedField("identifier", "STRING", "REQUIRED", Null),
       DescribedField("title", "STRING", "NULLABLE", Null),
       DescribedField("created_at", "TIMESTAMP", "NULLABLE", Null),
       DescribedField("updated_at", "TIMESTAMP", "NULLABLE", Null) >>

_create_schema_from_blueprint(bp) ==
    LET properties             == Get(Get(bp, "schema", <<>>), "properties", <<>>)
        required_properties    == Get(Get(bp, "schema", <<>>), "required", <<>>)
        relations              == Get(bp, "relations", <<>>)
        calculation_properties == Get(bp, "calculationProperties", <<>>)
        aggregation_properties == Get(bp, "aggregationProperties", <<>>)
        mirror_properties      == Get(bp, "mirrorProperties", <<>>)
    IN  BaseColumns
          \o _create_property_fields(properties, required_properties)
          \o _create_relation_fields(relations)
          \o _create_calculation_fields(calculation_properties)
          \o _create_aggregation_fields(aggregation_properties)
          \o _create_mirror_fields(mirror_properties)

\* The entries the model puts in the sub-maps of a blueprint: declared
\* types and formats of every branch of the mapping, an entry without a
\* type, keys that repeat a base column ("title") or a key of another
\* sub-map ("n"), relations and mirror properties that declare a type.
PropertyItems ==
    { <<"url",   ("type" :> "string") @@ ("format" :> "url")>>,
      <<"when",  ("type" :> "String") @@ ("format" :> "Date-Time")>>,
      <<"n",     ("type" :> "number")>>,
      <<"title", ("type" :> "string")>>,
      <<"u",     <<>>>> }

RelationItems ==
    { <<"services", ("many" :> TRUE) @@ ("type" :> "number")>>,
      <<"owner",    ("many" :> FALSE)>>,
      <<"n",        <<>>>> }

CalculationItems ==
    { <<"c1", ("type" :> "number") @@ ("description" :> "sum")>>,
      <<"c2", ("type" :> "string") @@ ("format" :> "date-time")>> }

AggregationItems ==
    { <<"g1", ("type" :> "boolean") @@ ("description" :> "any")>> }

MirrorItems ==
    { <<"m1", ("path" :> "owner.name") @@ ("type" :> "number")>>,
      <<"m2", <<>>>> }

\* The dicts of at most MaxEntries entries over a set of items.
Dicts(items) ==
    { d \in SeqsUpTo(items, MaxEntries) :
        \A i, j \in 1..Len(d) : i # j => Key(d[i]) # Key(d[j]) }

RequiredLists == { <<>>, <<"url", "n">> }

\* Blueprints: documents with the five sub-maps, and documents that lack
\* the schema key or every sub-map.
Blueprints ==
    { [ schema                |-> [properties |-> ps, required |-> rq],
        relations             |-> rs,
        calculationProperties |-> cs,
        aggregationProperties |-> gs,
        mirrorProperties      |-> ms ] :
        ps \in Dicts(PropertyItems), rq \in RequiredLists,
        rs \in Dicts(RelationItems), cs \in Dicts(CalculationItems),
        gs \in Dicts(AggregationItems), ms \in Dicts(MirrorItems) }
    \cup { [relations |-> rs] : rs \in Dicts(RelationItems) }
    \cup { [schema |-> [properties |-> ps]] : ps \in Dicts(PropertyItems) }

\* The entities and column-name sets the model hands to _prepare_entity_row.
ShapedEntities ==
    { [ Entity("x1", sh) EXCEPT !.createdAt = c, !.updatedAt = u,
                                !.calculationProperties = cp,
                                !.aggregationProperties = ap,
                                !.mirrorProperties = mp ] :
        sh \in Shapes \cup {BaseNamed},
        c \in {Null, IsoTimestamp}, u \in {Null, IsoTimestamp},
        cp \in { <<>>, ("c1" :> "7") }, ap \in { <<>>, ("g1" :> "3") },
        mp \in { <<>>, ("m1" :> "w") } }

ColumnNames == { "identifier", "created_at", "p", "q", "r", "z", "c1", "g1", "m1" }

\* The mapper and the row shaper at rest.
PureIdle ==
    /\ port_type = Null
    /\ format = Null
    /\ field_type = Null
    /\ blueprint = <<>>
    /\ derived = <<>>
    /\ entity_in = <<>>
    /\ column_names = {}
    /\ prepared = <<>>

----------------------------------------------------------------------------
(* Catalog client (src/clients/port.py) and run loop (src/main.py): data *)

\* expiresIn of a token response, in ticks of the clock
ExpiresIn == {1, 2}

\* SearchQuery.model_dump() of the configuration
search_query == ("combinator" :> "and") @@ ("rules" :> <<>>)

\* The entity lists and continuation cursors a search response can carry.
Pages == { <<>>, <<"x1">> }

Cursors == { Null, "", "c1", "c2" }

\* The bodies the catalog answers a search with: entities and next, or a
\* body with neither key.
SearchResponses ==
    { ("entities" :> p) @@ ("next" :> c) : p \in Pages, c \in Cursors }
      \cup { <<>> }

\* The test of line 38.
TokenExpired(t, expiry) == t >= expiry

\* The token request of get_access_token (line 23): it carries no token.
TokenRequest ==
    [kind |-> "access_token", headers |-> <<>>, query |-> <<>>,
     expired |-> FALSE]

\* A request to the catalog as it is sent at time t: its headers, its query,
\* and whether the expiry time of the client had passed.
CatalogRequest(kind, headers, query, t, expiry) ==
    [kind |-> kind, headers |-> headers, query |-> query,
     expired |-> TokenExpired(t, expiry)]

\* port_headers after refresh_access_token (line 34)
BearerHeaders == ("Authorization" :> "Bearer")

\* The test of line 71, negated.
HasNextCursor(next_cursor) == next_cursor # Null /\ next_cursor # ""

\* Mutant: the cursor is not stored in the query.
NextQuery_unchanged(query, next_cursor) == query

\* current_query["from"] = next_cursor (line 75)
NextQuery(query, next_cursor) ==
    ("from" :> next_cursor) @@ query

CatalogIdle ==
    /\ now = 0
    /\ token_expiry_time = 0
    /\ port_headers = <<>>
    /\ cat_pc = "idle"
    /\ requests = <<>>
    /\ responses = <<>>
    /\ yielded = <<>>
    /\ current_query = <<>>
    /\ cat_result = "none"
    /\ cat_calls = 0

\* The identifiers of the configured blueprints.
BlueprintIds == {"b1", "b2"}

\* The awaited steps of export_blueprint, in order.
ExportSteps ==
    {"get_blueprint", "create_or_update_table", "search_entities",
     "insert_entities"}

\* The methods class BigQueryClient defines.
BigQueryClientMethods ==
    {"__init__", "_map_port_type_to_bigquery", "_create_property_fields",
     "_create_relation_fields", "_create_calculation_fields",
     "_create_aggregation_fields", "_create_mirror_fields",
     "_create_schema_from_blueprint", "_get_existing_schema_fields",
     "_get_new_schema_fields", "_compare_schemas", "create_or_update_table",
     "_add_fields_to_table", "_remove_fields_from_table",
     "_get_existing_identifiers", "_prepare_entity_row",
     "_execute_bulk_update", "insert_entities"}

MainIdle ==
    /\ blueprints = <<>>
    /\ mpc = "exports"
    /\ bp_idx = 0
    /\ export_pc = "none"
    /\ pages_seen = 0
    /\ exports_returned = 0
    /\ cleanups = <<>>
    /\ failed_at = "none"

----------------------------------------------------------------------------
(* create_or_update_table *)

Init ==
    /\ auto_migrate \in Policies
    /\ schema \in DerivedSchemas
    /\ table \in {Absent} \cup { Present(s) : s \in TableSchemas }
    /\ pc = "idle"
    /\ existing_table = <<>>
    /\ schema_changes = NoChanges
    /\ calls = <<>>
    /\ outcome = "none"
    /\ run = 0
    /\ table0 = table
    /\ clean = TRUE
    /\ prevClean = TRUE
    /\ removal_intent = {}
    /\ RowsIdle
    /\ PureIdle
    /\ CatalogIdle
    /\ MainIdle

\* Entry of create_or_update_table (lines 294-295); a run starts when no
\* other run of the engine is under way.
Begin ==
    /\ pc \in {"idle", "done"}
    /\ run < MaxRuns
    /\ run' = run + 1
    /\ pc' = "get_table"
    /\ existing_table' = <<>>
    /\ schema_changes' = NoChanges
    /\ calls' = <<>>
    /\ outcome' = "none"
    /\ table0' = table
    /\ prevClean' = clean
    /\ clean' = TRUE
    /\ removal_intent' = {}
    /\ UNCHANGED <<runVars, pureVars, rowVars, auto_migrate, schema, table>>

\* weak: get_table (line 299); found -> return, any exception -> create.
WeakGetTable ==
    /\ pc = "get_table"
    /\ IsWeak
    /\ \E ok \in GetTableResults :
        /\ calls' = Append(calls, Call("get_table", "create_or_update_table", <<>>, ok))
        /\ clean' = (clean /\ (ok \/ ~table.exists))
        /\ IF ok
           THEN pc' = "done" /\ outcome' = "unchanged"
           ELSE pc' = "create" /\ outcome' = outcome
    /\ UNCHANGED <<runVars, pureVars, rowVars, auto_migrate, schema, table, existing_table, schema_changes,
                   run, table0, prevClean, removal_intent>>

\* balanced/hard: get_table (line 309); any exception -> except branch.
GetTable ==
    /\ pc = "get_table"
    /\ ~IsWeak
    /\ \E ok \in GetTableResults :
        /\ calls' = Append(calls, Call("get_table", "create_or_update_table", <<>>, ok))
        /\ clean' = (clean /\ (ok \/ ~table.exists))
        /\ IF ok
           THEN pc' = "get_fields" /\ existing_table' = table.schema
           ELSE pc' = "create" /\ existing_table' = existing_table
    /\ UNCHANGED <<runVars, pureVars, rowVars, auto_migrate, schema, table, schema_changes, outcome,
                   run, table0, prevClean, removal_intent>>

\* _get_existing_schema_fields (lines 247-254) returns, then lines 313-327
\* run up to the next awaited warehouse call: the diff, the early return,
\* and the schema _add_fields_to_table / _remove_fields_from_table put on
\* the table object before calling update_table.
GetExistingSchemaFields ==
    /\ pc = "get_fields"
    /\ \E ok \in GetTableResults :
        LET existing_fields == IF ok THEN FieldNames(table.schema) ELSE {}
            new_fields      == _get_new_schema_fields(schema)
            changes         == _compare_schemas(existing_fields, new_fields)
        IN  /\ calls' = Append(calls, Call("get_table", "_get_existing_schema_fields", <<>>, ok))
            /\ clean' = (clean /\ ok)
            /\ schema_changes' = changes
            /\ IF changes.added = {} /\ changes.removed = {}
               THEN /\ pc' = "done"
                    /\ outcome' = "unchanged"
                    /\ existing_table' = existing_table
               ELSE IF changes.added # {}
               THEN /\ pc' = "add"
                    /\ outcome' = outcome
                    /\ existing_table' = AddFieldsSchema(existing_table, schema, changes.added)
               ELSE IF RemovalDue(changes)
               THEN /\ pc' = "remove"
                    /\ outcome' = outcome
                    /\ existing_table' = RemoveFieldsSchema(existing_table, changes.removed)
               ELSE /\ pc' = "done"
                    /\ outcome' = "altered"
                    /\ existing_table' = existing_table
            /\ removal_intent' =
                 IF changes.added = {} /\ changes.removed # {} /\ ~RemovalDue(changes)
                 THEN changes.removed ELSE removal_intent
    /\ UNCHANGED <<runVars, pureVars, rowVars, auto_migrate, schema, table, run, table0, prevClean>>

\* Mutant: _add_fields_to_table logs the exception and does not re-raise.
AddFieldsToTable_swallowing ==
    /\ pc = "add"
    /\ \E ok \in UpdateTableResults(existing_table) :
        /\ calls' = Append(calls, Call("update_table", "_add_fields_to_table", existing_table, ok))
        /\ clean' = (clean /\ ok)
        /\ table' = IF ok THEN Present(existing_table) ELSE table
        /\ IF RemovalDue(schema_changes)
           THEN /\ pc' = "remove"
                /\ existing_table' =
                     RemoveFieldsSchema(existing_table, schema_changes.removed)
                /\ UNCHANGED <<outcome, removal_intent>>
           ELSE /\ pc' = "done"
                /\ outcome' = "altered"
                /\ UNCHANGED <<existing_table, removal_intent>>
    /\ UNCHANGED <<runVars, pureVars, rowVars, auto_migrate, schema, schema_changes, run, table0, prevClean>>

\* update_table of _add_fields_to_table (line 354) returns or raises; on
\* success lines 324-327 follow.
AddFieldsToTable ==
    /\ pc = "add"
    /\ \E ok \in UpdateTableResults(existing_table) :
        /\ calls' = Append(calls, Call("update_table", "_add_fields_to_table", existing_table, ok))
        /\ clean' = (clean /\ ok)
        /\ IF ~ok
           THEN /\ pc' = "create"
                /\ UNCHANGED <<table, existing_table, outcome, removal_intent>>
           ELSE /\ table' = Present(existing_table)
                /\ IF RemovalDue(schema_changes)
                   THEN /\ pc' = "remove"
                        /\ existing_table' =
                             RemoveFieldsSchema(existing_table, schema_changes.removed)
                        /\ UNCHANGED <<outcome, removal_intent>>
                   ELSE /\ pc' = "done"
                        /\ outcome' = "altered"
                        /\ removal_intent' =
                             IF schema_changes.removed # {}
                             THEN schema_changes.removed ELSE removal_intent
                        /\ UNCHANGED existing_table
    /\ UNCHANGED <<runVars, pureVars, rowVars, auto_migrate, schema, schema_changes, run, table0, prevClean>>

\* Mutant: the exception of _remove_fields_from_table leaves the method.
RemoveFieldsFromTable_propagating ==
    /\ pc = "remove"
    /\ \E ok \in UpdateTableResults(existing_table) :
        /\ calls' = Append(calls, Call("update_table", "_remove_fields_from_table", existing_table, ok))
        /\ clean' = (clean /\ ok)
        /\ pc' = "done"
        /\ IF ok
           THEN outcome' = "altered" /\ table' = Present(existing_table)
           ELSE outcome' = "raised" /\ table' = table
    /\ UNCHANGED <<runVars, pureVars, rowVars, auto_migrate, schema, existing_table, schema_changes,
                   run, table0, prevClean, removal_intent>>

\* update_table of _remove_fields_from_table (line 371) returns or raises.
RemoveFieldsFromTable ==
    /\ pc = "remove"
    /\ \E ok \in UpdateTableResults(existing_table) :
        /\ calls' = Append(calls, Call("update_table", "_remove_fields_from_table", existing_table, ok))
        /\ clean' = (clean /\ ok)
        /\ IF ok
           THEN pc' = "done" /\ outcome' = "altered" /\ table' = Present(existing_table)
           ELSE pc' = "create" /\ outcome' = outcome /\ table' = table
    /\ UNCHANGED <<runVars, pureVars, rowVars, auto_migrate, schema, existing_table, schema_changes,
                   run, table0, prevClean, removal_intent>>

\* create_table with the derived schema: line 304 (weak) and line 333 (the
\* except branch of balanced/hard); an exception here leaves the method.
CreateTable ==
    /\ pc = "create"
    /\ \E ok \in CreateTableResults(NewTableObject(schema)) :
        /\ calls' = Append(calls, Call("create_table", "create_or_update_table",
                                       NewTableObject(schema), ok))
        /\ clean' = (clean /\ ok)
        /\ pc' = "done"
        /\ IF ok
           THEN table' = Present(NewTableObject(schema)) /\ outcome' = "created"
           ELSE table' = table /\ outcome' = "raised"
    /\ UNCHANGED <<runVars, pureVars, rowVars, auto_migrate, schema, existing_table, schema_changes,
                   run, table0, prevClean, removal_intent>>

Next ==
    \/ Begin
    \/ WeakGetTable
    \/ GetTable
    \/ GetExistingSchemaFields
    \/ AddFieldsToTable
    \/ RemoveFieldsFromTable
    \/ CreateTable

Spec == Init /\ [][Next]_vars

----------------------------------------------------------------------------
(* insert_entities *)

\* The migration engine at rest, with the entity table in place.
MigrationIdle ==
    /\ auto_migrate = "balanced"
    /\ schema = EntityTableSchema
    /\ table = Present(EntityTableSchema)
    /\ pc = "idle"
    /\ existing_table = <<>>
    /\ schema_changes = NoChanges
    /\ calls = <<>>
    /\ outcome = "none"
    /\ run = 0
    /\ table0 = table
    /\ clean = TRUE
    /\ prevClean = TRUE
    /\ removal_intent = {}

InitRows ==
    /\ MigrationIdle
    /\ PureIdle
    /\ CatalogIdle
    /\ MainIdle
    /\ stored \in [Ids -> {0, 1}]
    /\ entities = <<>>
    /\ ipc = "idle"
    /\ schema_fields = {}
    /\ existing_identifiers = {}
    /\ rows_to_insert = <<>>
    /\ rows_to_update = <<>>
    /\ insert_task = "none"
    /\ update_task = "none"
    /\ field_sets = <<>>
    /\ group_cur = 0
    /\ tasks = <<>>
    /\ statements = <<>>
    /\ ncalls = 0
    /\ stored0 = stored

\* The rows of the table after the rows idxs of rows were appended.
AppendRows(st, rows, idxs) ==
    [id \in Ids |-> st[id] + Cardinality({ i \in idxs : rows[i].identifier = id })]

GroupMembers(g) == { field_sets[g].rows[k] : k \in 1..Len(field_sets[g].rows) }

TaskOver(i) == tasks[i] \in {"ok", "failed", "raised"}

\* Entry of insert_entities (line 521) with a batch of entities.
InsertEntities ==
    /\ ipc = "idle"
    /\ ncalls < MaxInsertCalls
    /\ \E batch \in Batches : entities' = batch
    /\ ncalls' = ncalls + 1
    /\ ipc' = "get_table"
    /\ stored0' = stored
    /\ UNCHANGED <<runVars, pureVars, migVars, stored, schema_fields, existing_identifiers, rows_to_insert,
                   rows_to_update, insert_task, update_task, field_sets,
                   group_cur, tasks, statements>>

\* get_table (line 522) returns or raises; schema_fields (line 525).
InsertGetTable ==
    /\ ipc = "get_table"
    /\ \E ok \in GetTableResults :
        IF ok
        THEN ipc' = "scan" /\ schema_fields' = FieldNames(table.schema)
        ELSE ipc' = "raised" /\ schema_fields' = schema_fields
    /\ UNCHANGED <<runVars, pureVars, migVars, stored, entities, existing_identifiers, rows_to_insert,
                   rows_to_update, insert_task, update_task, field_sets,
                   group_cur, tasks, statements, ncalls, stored0>>

\* _get_existing_identifiers (lines 386-396): the scan returns every stored
\* identifier, or raises after having yielded any part of them; then the
\* partition of lines 530-540, up to the gather of line 549.
GetExistingIdentifiers ==
    /\ ipc = "scan"
    /\ \E ok \in BOOLEAN :
       \E found \in (IF ok THEN {StoredIds} ELSE SUBSET StoredIds) :
          LET parts == Partition(entities, schema_fields, found, 1,
                                 [to_insert |-> <<>>, to_update |-> <<>>])
          IN  /\ existing_identifiers' = found
              /\ rows_to_insert' = parts.to_insert
              /\ rows_to_update' = parts.to_update
    /\ ipc' = "gather"
    /\ UNCHANGED <<runVars, pureVars, migVars, stored, entities, schema_fields, insert_task, update_task,
                   field_sets, group_cur, tasks, statements, ncalls, stored0>>

\* First step of the insert task of the gather: insert_rows_json is handed
\* to a worker thread (line 545).
LaunchInsert ==
    /\ ipc = "gather"
    /\ insert_task = "none"
    /\ insert_task' = "inflight"
    /\ UNCHANGED <<runVars, pureVars, migVars, stored, entities, ipc, schema_fields, existing_identifiers,
                   rows_to_insert, rows_to_update, update_task, field_sets,
                   group_cur, tasks, statements, ncalls, stored0>>

\* insert_rows_json returns no errors (every row appended), returns a
\* per-row error list (some rows not appended) or raises (none appended).
InsertReturns ==
    /\ insert_task = "inflight"
    /\ \E res \in {"ok", "errors", "failed"} :
       \E idxs \in SUBSET (1..Len(rows_to_insert)) :
          /\ res = "ok" => idxs = 1..Len(rows_to_insert)
          /\ res = "errors" => idxs # 1..Len(rows_to_insert)
          /\ res = "failed" => idxs = {}
          /\ insert_task' = res
          /\ stored' = AppendRows(stored, rows_to_insert, idxs)
    /\ UNCHANGED <<runVars, pureVars, migVars, entities, ipc, schema_fields, existing_identifiers,
                   rows_to_insert, rows_to_update, update_task, field_sets,
                   group_cur, tasks, statements, ncalls, stored0>>

\* First step of _execute_bulk_update (lines 456-512, up to the first
\* gather): the event loop runs it after the insert task's first step.
StartBulkUpdate ==
    /\ ipc = "gather"
    /\ insert_task # "none"
    /\ update_task = "none"
    /\ IF rows_to_update = <<>>
       THEN /\ update_task' = "done"
            /\ UNCHANGED <<field_sets, group_cur, tasks>>
       ELSE LET groups == GroupRows(rows_to_update, 1, <<>>)
            IN  /\ update_task' = "running"
                /\ field_sets' = groups
                /\ group_cur' = 1
                /\ tasks' = [i \in 1..Len(rows_to_update) |->
                               IF \E k \in 1..Len(groups[1].rows) : groups[1].rows[k] = i
                               THEN "created" ELSE "none"]
    /\ UNCHANGED <<runVars, pureVars, migVars, stored, entities, ipc, schema_fields, existing_identifiers,
                   rows_to_insert, rows_to_update, insert_task, statements,
                   ncalls, stored0>>

\* First step of one _execute_single_update task (lines 479-498): the
\* parameters are built and client.query is handed to a worker thread; the
\* tasks of a group take this step in row order.
SubmitUpdate(i) ==
    /\ update_task = "running"
    /\ tasks[i] = "created"
    /\ \A j \in GroupMembers(group_cur) : j < i => tasks[j] # "created"
    /\ LET fields == field_sets[group_cur].field_set
           row    == rows_to_update[i]
       IN  IF ParameterError(table.schema, row, fields)
           THEN /\ tasks' = [tasks EXCEPT ![i] = "raised"]
                /\ UNCHANGED statements
           ELSE /\ tasks' = [tasks EXCEPT ![i] = "query"]
                /\ statements' = Append(statements,
                      UpdateStatement(table.schema, row.identifier, row, fields, i))
    /\ UNCHANGED <<runVars, pureVars, migVars, stored, entities, ipc, schema_fields, existing_identifiers,
                   rows_to_insert, rows_to_update, insert_task, update_task,
                   field_sets, group_cur, ncalls, stored0>>

\* Mutant: the exception of client.query is not caught in the task and the
\* gather of the group lets it end _execute_bulk_update.
QueryReturns_aborting(i) ==
    /\ update_task = "running"
    /\ tasks[i] = "query"
    /\ \E ok \in BOOLEAN :
        /\ tasks' = [tasks EXCEPT ![i] = IF ok THEN "result" ELSE "failed"]
        /\ update_task' = IF ok THEN update_task ELSE "done"
    /\ UNCHANGED <<runVars, pureVars, migVars, stored, entities, ipc, schema_fields, existing_identifiers,
                   rows_to_insert, rows_to_update, insert_task,
                   field_sets, group_cur, statements, ncalls, stored0>>

\* client.query returns the job (line 498) or raises (caught, line 500).
QueryReturns(i) ==
    /\ update_task = "running"
    /\ tasks[i] = "query"
    /\ \E ok \in BOOLEAN :
        tasks' = [tasks EXCEPT ![i] = IF ok THEN "result" ELSE "failed"]
    /\ UNCHANGED <<runVars, pureVars, migVars, stored, entities, ipc, schema_fields, existing_identifiers,
                   rows_to_insert, rows_to_update, insert_task, update_task,
                   field_sets, group_cur, statements, ncalls, stored0>>

\* query_job.result returns (line 499) or raises (caught, line 500).
ResultReturns(i) ==
    /\ update_task = "running"
    /\ tasks[i] = "result"
    /\ \E ok \in BOOLEAN :
        tasks' = [tasks EXCEPT ![i] = IF ok THEN "ok" ELSE "failed"]
    /\ UNCHANGED <<runVars, pureVars, migVars, stored, entities, ipc, schema_fields, existing_identifiers,
                   rows_to_insert, rows_to_update, insert_task, update_task,
                   field_sets, group_cur, statements, ncalls, stored0>>

\* The gather of line 512 completes: the loop of line 504 takes the next
\* group, or _execute_bulk_update returns.
GroupGathered ==
    /\ update_task = "running"
    /\ \A i \in GroupMembers(group_cur) : TaskOver(i)
    /\ IF group_cur < Len(field_sets)
       THEN /\ group_cur' = group_cur + 1
            /\ tasks' = [i \in DOMAIN tasks |->
                           IF i \in GroupMembers(group_cur + 1) THEN "created" ELSE tasks[i]]
            /\ UNCHANGED update_task
       ELSE /\ update_task' = "done"
            /\ UNCHANGED <<group_cur, tasks>>
    /\ UNCHANGED <<runVars, pureVars, migVars, stored, entities, ipc, schema_fields, existing_identifiers,
                   rows_to_insert, rows_to_update, insert_task, field_sets,
                   statements, ncalls, stored0>>

\* Mutant: only the update coroutine is awaited.
InsertEntitiesReturns_early ==
    /\ ipc = "gather"
    /\ update_task = "done"
    /\ ipc' = "done"
    /\ UNCHANGED <<runVars, pureVars, migVars, stored, entities, schema_fields, existing_identifiers,
                   rows_to_insert, rows_to_update, insert_task, update_task,
                   field_sets, group_cur, tasks, statements, ncalls, stored0>>

\* The gather of line 549 completes; lines 555-560.
InsertEntitiesReturns ==
    /\ ipc = "gather"
    /\ insert_task \in {"ok", "errors", "failed"}
    /\ update_task = "done"
    /\ ipc' = "done"
    /\ UNCHANGED <<runVars, pureVars, migVars, stored, entities, schema_fields, existing_identifiers,
                   rows_to_insert, rows_to_update, insert_task, update_task,
                   field_sets, group_cur, tasks, statements, ncalls, stored0>>

\* The caller's loop takes the next page (src/main.py lines 29-37): the
\* locals of the finished call are gone.  A call that raised ends the run.
NextPage ==
    /\ ipc = "done"
    /\ ipc' = "idle"
    /\ entities' = <<>>
    /\ schema_fields' = {}
    /\ existing_identifiers' = {}
    /\ rows_to_insert' = <<>>
    /\ rows_to_update' = <<>>
    /\ insert_task' = "none"
    /\ update_task' = "none"
    /\ field_sets' = <<>>
    /\ group_cur' = 0
    /\ tasks' = <<>>
    /\ statements' = <<>>
    /\ stored0' = stored
    /\ UNCHANGED <<runVars, pureVars, migVars, stored, ncalls>>

NextRows ==
    \/ InsertEntities
    \/ NextPage
    \/ InsertGetTable
    \/ GetExistingIdentifiers
    \/ LaunchInsert
    \/ InsertReturns
    \/ StartBulkUpdate
    \/ \E i \in DOMAIN tasks : SubmitUpdate(i)
    \/ \E i \in DOMAIN tasks : QueryReturns(i)
    \/ \E i \in DOMAIN tasks : ResultReturns(i)
    \/ GroupGathered
    \/ InsertEntitiesReturns

SpecRows == InitRows /\ [][NextRows]_vars

----------------------------------------------------------------------------
(* _map_port_type_to_bigquery on its own *)

InitTypes ==
    /\ MigrationIdle
    /\ RowsIdle
    /\ CatalogIdle
    /\ MainIdle
    /\ port_type \in PortTypes
    /\ format \in Formats
    /\ field_type = Null
    /\ blueprint = <<>>
    /\ derived = <<>>
    /\ entity_in = <<>>
    /\ column_names = {}
    /\ prepared = <<>>

\* One call of _map_port_type_to_bigquery (lines 46-76).
MapPortType ==
    /\ port_type # Null
    /\ field_type = Null
    /\ field_type' = _map_port_type_to_bigquery(port_type, format)
    /\ UNCHANGED <<runVars, migVars, rowVars, port_type, format, blueprint, derived,
                   entity_in, column_names, prepared>>

NextTypes == MapPortType

SpecTypes == InitTypes /\ [][NextTypes]_vars

----------------------------------------------------------------------------
(* _create_schema_from_blueprint on its own *)

InitMapper ==
    /\ MigrationIdle
    /\ RowsIdle
    /\ CatalogIdle
    /\ MainIdle
    /\ port_type = Null
    /\ format = Null
    /\ field_type = Null
    /\ blueprint \in Blueprints
    /\ derived = <<>>
    /\ entity_in = <<>>
    /\ column_names = {}
    /\ prepared = <<>>

\* One call of _create_schema_from_blueprint (lines 198-236) on the
\* blueprint; the blueprint is derived again on every export cycle.
DeriveSchema ==
    /\ Len(derived) < MaxDerivations
    /\ derived' = Append(derived, _create_schema_from_blueprint(blueprint))
    /\ UNCHANGED <<runVars, migVars, rowVars, port_type, format, field_type, blueprint,
                   entity_in, column_names, prepared>>

NextMapper == DeriveSchema

SpecMapper == InitMapper /\ [][NextMapper]_vars

----------------------------------------------------------------------------
(* _prepare_entity_row on its own *)

InitShape ==
    /\ MigrationIdle
    /\ RowsIdle
    /\ CatalogIdle
    /\ MainIdle
    /\ port_type = Null
    /\ format = Null
    /\ field_type = Null
    /\ blueprint = <<>>
    /\ derived = <<>>
    /\ entity_in \in ShapedEntities
    /\ column_names \in SUBSET ColumnNames
    /\ prepared = <<>>

\* One call of _prepare_entity_row (lines 398-445).
PrepareEntityRow ==
    /\ entity_in # <<>>
    /\ prepared = <<>>
    /\ prepared' = _prepare_entity_row(entity_in, column_names)
    /\ UNCHANGED <<runVars, migVars, rowVars, port_type, format, field_type, blueprint,
                   derived, entity_in, column_names>>

NextShape == PrepareEntityRow

SpecShape == InitShape /\ [][NextShape]_vars

----------------------------------------------------------------------------
(* PortClient: get_blueprint and search_entities *)

InitCatalog ==
    /\ now = 0
    /\ token_expiry_time = now
    /\ port_headers = <<>>
    /\ cat_pc = "idle"
    /\ requests = <<>>
    /\ responses = <<>>
    /\ yielded = <<>>
    /\ current_query = <<>>
    /\ cat_result = "none"
    /\ cat_calls = 0
    /\ MigrationIdle
    /\ RowsIdle
    /\ PureIdle
    /\ MainIdle

\* Time passes: while a request is awaited, between two calls of the
\* client, and while the consumer of search_entities works on a page.
Tick ==
    /\ now < MaxTime
    /\ now' = now + 1
    /\ UNCHANGED <<migVars, rowVars, pureVars, mainVars, token_expiry_time,
                   port_headers, cat_pc, requests, responses, yielded,
                   current_query, cat_result, cat_calls>>

\* get_blueprint up to its first await (lines 77-80): the expiry test of
\* refresh_token_if_expired, then the token request or, the token being
\* valid, the GET of the blueprint.
GetBlueprint ==
    /\ cat_pc = "idle"
    /\ cat_calls < MaxCatalogCalls
    /\ cat_calls' = cat_calls + 1
    /\ cat_result' = "none"
    /\ responses' = <<>>
    /\ yielded' = <<>>
    /\ current_query' = <<>>
    /\ IF TokenExpired(now, token_expiry_time)
       THEN /\ requests' = <<TokenRequest>>
            /\ cat_pc' = "get_blueprint_token"
       ELSE /\ requests' = << CatalogRequest("get_blueprint", port_headers, <<>>,
                                             now, token_expiry_time) >>
            /\ cat_pc' = "get_blueprint_get"
    /\ UNCHANGED <<migVars, rowVars, pureVars, mainVars, now,
                   token_expiry_time, port_headers>>

\* search_entities up to its first await (lines 48-62): the expiry test,
\* then the token request or the POST of the first page.
SearchEntities ==
    /\ cat_pc = "idle"
    /\ cat_calls < MaxCatalogCalls
    /\ cat_calls' = cat_calls + 1
    /\ cat_result' = "none"
    /\ responses' = <<>>
    /\ yielded' = <<>>
    /\ current_query' = search_query
    /\ IF TokenExpired(now, token_expiry_time)
       THEN /\ requests' = <<TokenRequest>>
            /\ cat_pc' = "search_entities_token"
       ELSE /\ requests' = << CatalogRequest("search_entities", port_headers,
                                             search_query, now,
                                             token_expiry_time) >>
            /\ cat_pc' = "search_entities_post"
    /\ UNCHANGED <<migVars, rowVars, pureVars, mainVars, now,
                   token_expiry_time, port_headers>>

\* The token request returns (lines 23-34): the token and its expiry time
\* are stored and the caller sends its own request, or raise_for_status
\* raises and the call ends.
GetAccessTokenReturns ==
    /\ cat_pc \in {"get_blueprint_token", "search_entities_token"}
    /\ \E ok \in BOOLEAN, expires_in \in ExpiresIn :
        IF ok
        THEN /\ token_expiry_time' = now + expires_in
             /\ port_headers' = BearerHeaders
             /\ IF cat_pc = "get_blueprint_token"
                THEN /\ requests' = Append(requests,
                          CatalogRequest("get_blueprint", BearerHeaders, <<>>,
                                         now, now + expires_in))
                     /\ cat_pc' = "get_blueprint_get"
                ELSE /\ requests' = Append(requests,
                          CatalogRequest("search_entities", BearerHeaders,
                                         current_query, now,
                                         now + expires_in))
                     /\ cat_pc' = "search_entities_post"
             /\ UNCHANGED cat_result
        ELSE /\ cat_pc' = "idle"
             /\ cat_result' = "raised"
             /\ UNCHANGED <<token_expiry_time, port_headers, requests>>
    /\ UNCHANGED <<migVars, rowVars, pureVars, mainVars, now, responses,
                   yielded, current_query, cat_calls>>

\* The GET of the blueprint returns (lines 80-83).
GetBlueprintReturns ==
    /\ cat_pc = "get_blueprint_get"
    /\ \E ok \in BOOLEAN :
        cat_result' = IF ok THEN "returned" ELSE "raised"
    /\ cat_pc' = "idle"
    /\ UNCHANGED <<migVars, rowVars, pureVars, mainVars, now,
                   token_expiry_time, port_headers, requests, responses,
                   yielded, current_query, cat_calls>>

\* The POST of a page returns (lines 62-67): the page is yielded, or
\* raise_for_status raises and the generator ends.
SearchPostReturns ==
    /\ cat_pc = "search_entities_post"
    /\ \E ok \in BOOLEAN, response_data \in SearchResponses :
        IF ok
        THEN /\ responses' = Append(responses, response_data)
             /\ yielded' = Append(yielded, Get(response_data, "entities", <<>>))
             /\ cat_pc' = "search_entities_yield"
             /\ UNCHANGED cat_result
        ELSE /\ cat_pc' = "idle"
             /\ cat_result' = "raised"
             /\ UNCHANGED <<responses, yielded>>
    /\ UNCHANGED <<migVars, rowVars, pureVars, mainVars, now,
                   token_expiry_time, port_headers, requests, current_query,
                   cat_calls>>

\* The consumer asks for the next page (lines 70-75, then 56-62): the
\* generator ends when the response had no cursor, otherwise it stores the
\* cursor in the query and posts the next request.
SearchResumes ==
    /\ cat_pc = "search_entities_yield"
    /\ LET next_cursor == Get(responses[Len(responses)], "next", Null)
       IN  IF ~HasNextCursor(next_cursor)
           THEN /\ cat_pc' = "idle"
                /\ cat_result' = "exhausted"
                /\ UNCHANGED <<requests, current_query>>
           ELSE /\ Len(responses) < MaxRequests
                /\ current_query' = NextQuery(current_query, next_cursor)
                /\ requests' = Append(requests,
                      CatalogRequest("search_entities", port_headers,
                                     NextQuery(current_query, next_cursor),
                                     now, token_expiry_time))
                /\ cat_pc' = "search_entities_post"
                /\ UNCHANGED cat_result
    /\ UNCHANGED <<migVars, rowVars, pureVars, mainVars, now,
                   token_expiry_time, port_headers, responses, yielded,
                   cat_calls>>

\* The consumer leaves the loop over the pages (an exception of
\* insert_entities at line 37 of src/main.py): the generator is closed.
SearchClosed ==
    /\ cat_pc = "search_entities_yield"
    /\ cat_pc' = "idle"
    /\ cat_result' = "closed"
    /\ UNCHANGED <<migVars, rowVars, pureVars, mainVars, now,
                   token_expiry_time, port_headers, requests, responses,
                   yielded, current_query, cat_calls>>

NextCatalog ==
    \/ Tick
    \/ GetBlueprint
    \/ SearchEntities
    \/ GetAccessTokenReturns
    \/ GetBlueprintReturns
    \/ SearchPostReturns
    \/ SearchResumes
    \/ SearchClosed

SpecCatalog == InitCatalog /\ [][NextCatalog]_vars

----------------------------------------------------------------------------
(* main and export_blueprint *)

InitMain ==
    /\ blueprints \in SeqsUpTo(BlueprintIds, MaxBlueprints)
    /\ mpc = "exports"
    /\ bp_idx = 0
    /\ export_pc = "none"
    /\ pages_seen = 0
    /\ exports_returned = 0
    /\ cleanups = <<>>
    /\ failed_at = "none"
    /\ MigrationIdle
    /\ RowsIdle
    /\ PureIdle
    /\ CatalogIdle

\* The loop of lines 67-68: export_blueprint is called for the next
\* blueprint and runs to its first await (line 20), or the loop is over and
\* main goes on to line 71.
NextExport ==
    /\ mpc = "exports"
    /\ IF bp_idx < Len(blueprints)
       THEN /\ bp_idx' = bp_idx + 1
            /\ mpc' = "exporting"
            /\ export_pc' = "get_blueprint"
            /\ pages_seen' = 0
       ELSE /\ mpc' = "cleanups"
            /\ UNCHANGED <<bp_idx, export_pc, pages_seen>>
    /\ UNCHANGED <<migVars, rowVars, pureVars, catVars, blueprints,
                   exports_returned, cleanups, failed_at>>

\* An awaited call of export_blueprint raises: nothing in export_blueprint
\* or in main catches it, so main raises.
Raise(step) ==
    /\ mpc' = "raised"
    /\ failed_at' = step
    /\ export_pc' = "none"

\* port_client.get_blueprint returns or raises (line 20).
ExportGetBlueprint ==
    /\ mpc = "exporting"
    /\ export_pc = "get_blueprint"
    /\ \E ok \in BOOLEAN :
        IF ok
        THEN /\ export_pc' = "create_or_update_table"
             /\ UNCHANGED <<mpc, failed_at>>
        ELSE Raise("get_blueprint")
    /\ UNCHANGED <<migVars, rowVars, pureVars, catVars, blueprints, bp_idx,
                   pages_seen, exports_returned, cleanups>>

\* bigquery_client.create_or_update_table returns or raises (line 25).
ExportCreateOrUpdateTable ==
    /\ mpc = "exporting"
    /\ export_pc = "create_or_update_table"
    /\ \E ok \in BOOLEAN :
        IF ok
        THEN /\ export_pc' = "search_entities"
             /\ UNCHANGED <<mpc, failed_at>>
        ELSE Raise("create_or_update_table")
    /\ UNCHANGED <<migVars, rowVars, pureVars, catVars, blueprints, bp_idx,
                   pages_seen, exports_returned, cleanups>>

\* One step of the async for of lines 29-35: search_entities yields a page
\* with entities, yields an empty page, is exhausted (export_blueprint
\* returns) or raises.
ExportSearchEntities ==
    /\ mpc = "exporting"
    /\ export_pc = "search_entities"
    /\ \E r \in {"page", "empty", "exhausted", "raised"} :
        CASE r = "page" ->
               /\ pages_seen < MaxPages
               /\ pages_seen' = pages_seen + 1
               /\ export_pc' = "insert_entities"
               /\ UNCHANGED <<mpc, failed_at, exports_returned>>
          [] r = "empty" ->
               /\ pages_seen < MaxPages
               /\ pages_seen' = pages_seen + 1
               /\ UNCHANGED <<export_pc, mpc, failed_at, exports_returned>>
          [] r = "exhausted" ->
               /\ exports_returned' = exports_returned + 1
               /\ mpc' = "exports"
               /\ export_pc' = "none"
               /\ UNCHANGED <<pages_seen, failed_at>>
          [] r = "raised" ->
               /\ Raise("search_entities")
               /\ UNCHANGED <<pages_seen, exports_returned>>
    /\ UNCHANGED <<migVars, rowVars, pureVars, catVars, blueprints, bp_idx,
                   cleanups>>

\* bigquery_client.insert_entities returns or raises (line 37).
ExportInsertEntities ==
    /\ mpc = "exporting"
    /\ export_pc = "insert_entities"
    /\ \E ok \in BOOLEAN :
        IF ok
        THEN /\ export_pc' = "search_entities"
             /\ UNCHANGED <<mpc, failed_at>>
        ELSE Raise("insert_entities")
    /\ UNCHANGED <<migVars, rowVars, pureVars, catVars, blueprints, bp_idx,
                   pages_seen, exports_returned, cleanups>>

\* The loop of lines 72-74: bigquery_client.cleanup_duplicates is looked up
\* and called for the next blueprint, or the loop is over and main returns.
\* Looking up a name the class does not define raises AttributeError.
CleanupDuplicates ==
    /\ mpc = "cleanups"
    /\ IF Len(cleanups) < Len(blueprints)
       THEN IF "cleanup_duplicates" \in BigQueryClientMethods
            THEN /\ cleanups' = Append(cleanups, blueprints[Len(cleanups) + 1])
                 /\ UNCHANGED <<mpc, failed_at>>
            ELSE /\ mpc' = "raised"
                 /\ failed_at' = "cleanup_duplicates"
                 /\ UNCHANGED cleanups
       ELSE /\ mpc' = "returned"
            /\ UNCHANGED <<cleanups, failed_at>>
    /\ UNCHANGED <<migVars, rowVars, pureVars, catVars, blueprints, bp_idx,
                   export_pc, pages_seen, exports_returned>>

NextMain ==
    \/ NextExport
    \/ ExportGetBlueprint
    \/ ExportCreateOrUpdateTable
    \/ ExportSearchEntities
    \/ ExportInsertEntities
    \/ CleanupDuplicates

SpecMain == InitMain /\ [][NextMain]_vars

----------------------------------------------------------------------------
(* Properties of the migration engine *)

UpdateCalls == { i \in DOMAIN calls : calls[i].op = "update_table" }

CreateCalls == { i \in DOMAIN calls : calls[i].op = "create_table" }

FieldFetches == { i \in DOMAIN calls : calls[i].by = "_get_existing_schema_fields" }

E0 == FieldNames(table0.schema)

N0 == FieldNames(schema)

\* C1: an alteration that drops a column of the existing table is issued
\* only under hard; under weak and balanced every alteration submitted keeps
\* every column the table had, and the table never loses a column.
C1_RemovalOnlyUnderHard ==
    auto_migrate # "hard" =>
        /\ \A i \in UpdateCalls : E0 \subseteq FieldNames(calls[i].schema)
        /\ table0.exists =>
             /\ table.exists
             /\ FieldNames(table0.schema) \subseteq FieldNames(table.schema)

\* C1 witness: under balanced an alteration was applied to a table holding
\* a column the derived schema lacks, and the column is still there.
C1_Witness ==
    /\ auto_migrate = "balanced"
    /\ pc = "done"
    /\ \E i \in UpdateCalls : calls[i].ok
    /\ E0 \ N0 # {}
    /\ E0 \subseteq FieldNames(table.schema)

\* C2 (as stated): under weak, a run on an existing table ends having issued
\* no alteration, no create and no column fetch, as unchanged, with the
\* table as it was.
C2_Original ==
    (auto_migrate = "weak" /\ table0.exists /\ pc = "done") =>
        /\ UpdateCalls = {}
        /\ CreateCalls = {}
        /\ FieldFetches = {}
        /\ outcome = "unchanged"
        /\ table = table0

\* C2 (amended): under weak, on an existing table, no alteration call and no
\* column fetch is ever issued and the table stays as it was; when the table
\* fetch succeeds the run issues no create call and ends as unchanged, and
\* when the table fetch fails the run issues one create call, which fails
\* on the existing table and ends the run with that failure.
C2_WeakNonDestructive ==
    (auto_migrate = "weak" /\ table0.exists) =>
        /\ UpdateCalls = {}
        /\ FieldFetches = {}
        /\ table = table0
        /\ pc = "done" =>
             IF calls[1].ok
             THEN Len(calls) = 1 /\ outcome = "unchanged"
             ELSE /\ Len(calls) = 2
                  /\ calls[2].op = "create_table"
                  /\ ~calls[2].ok
                  /\ outcome = "raised"

\* C2 witness: a weak run on an existing table whose columns differ from the
\* derived schema has returned as unchanged.
C2_Witness ==
    /\ auto_migrate = "weak"
    /\ table0.exists
    /\ pc = "done"
    /\ outcome = "unchanged"
    /\ E0 # N0

\* C3: under balanced or hard, the second of two successive runs with the
\* same derived schema, following a first run without failure and finding
\* the table at its own table fetch, issues no alteration and no create
\* call and ends as unchanged.
C3_AdditiveIdempotence ==
    ( /\ auto_migrate # "weak"
      /\ run >= 2
      /\ pc = "done"
      /\ prevClean
      /\ calls[1].ok ) =>
        /\ UpdateCalls = {}
        /\ CreateCalls = {}
        /\ outcome = "unchanged"

\* C4: a failure-free run on an existing table with column names E and
\* derived names N leaves exactly N under hard and E union N under balanced:
\* N - E is added by one alteration, E - N is removed by one alteration
\* under hard only, and both alterations are applied.
C4_HardSymmetry ==
    (auto_migrate # "weak" /\ table0.exists /\ pc = "done" /\ clean) =>
        /\ FieldNames(table.schema) =
             IF auto_migrate = "hard" THEN N0 ELSE E0 \cup N0
        /\ schema_changes.added = N0 \ E0
        /\ \A i \in UpdateCalls : calls[i].ok
        /\ (N0 \ E0 # {}) <=>
             \E i \in UpdateCalls :
                /\ calls[i].by = "_add_fields_to_table"
                /\ FieldNames(calls[i].schema) = E0 \cup N0
        /\ (auto_migrate = "hard" /\ E0 \ N0 # {}) <=>
             \E i \in UpdateCalls :
                /\ calls[i].by = "_remove_fields_from_table"
                /\ FieldNames(calls[i].schema) = N0
        /\ Cardinality(UpdateCalls) <= 2
        /\ CreateCalls = {}

\* C4 witness: E = {a,b,c}, N = {b,c,d} under hard ended with {b,c,d}.
C4_Witness ==
    /\ auto_migrate = "hard"
    /\ pc = "done"
    /\ clean
    /\ table0.exists
    /\ E0 = {"a", "b", "c"}
    /\ N0 = {"b", "c", "d"}
    /\ FieldNames(table.schema) = {"b", "c", "d"}
    /\ Cardinality(UpdateCalls) = 2

\* C5 (as stated): a run on an absent table issues exactly one create call
\* carrying the derived schema, no alteration, and ends as created.
C5_Original ==
    (~table0.exists /\ pc = "done") =>
        /\ Cardinality(CreateCalls) = 1
        /\ \A i \in CreateCalls : calls[i].schema = schema
        /\ UpdateCalls = {}
        /\ outcome = "created"

\* C5 (amended): a run on an absent table issues, under every policy,
\* exactly one create call carrying the derived schema verbatim and no
\* alteration; when that call succeeds the run ends as created with the
\* table holding the derived schema, and when it fails the failure leaves
\* the method with no further call issued.
C5_AbsentTableCreated ==
    (~table0.exists /\ pc = "done") =>
        /\ Cardinality(CreateCalls) = 1
        /\ \A i \in CreateCalls :
             /\ calls[i].schema = schema
             /\ IF calls[i].ok
                THEN outcome = "created" /\ table = Present(schema)
                ELSE outcome = "raised" /\ table = Absent
        /\ UpdateCalls = {}
        /\ FieldFetches = {}

\* C5 witness: a balanced run on an absent table has created it.
C5_Witness ==
    /\ auto_migrate = "balanced"
    /\ ~table0.exists
    /\ pc = "done"
    /\ outcome = "created"
    /\ table = Present(schema)
    /\ Len(schema) = 3

----------------------------------------------------------------------------
(* Properties of the row reconciler *)

RowIdx == 1..Len(rows_to_update)

\* The column names of update row i, without identifier.
KeysNoId(i) == { k \in DOMAIN rows_to_update[i] : k # "identifier" }

SameGroup(i, j) ==
    \E g \in 1..Len(field_sets) : i \in GroupMembers(g) /\ j \in GroupMembers(g)

StatementsOf(i) == { k \in 1..Len(statements) : statements[k].row = i }

Partitioned == ipc \in {"gather", "done"}

Grouped == update_task \in {"running", "done"} /\ rows_to_update # <<>>

InsertOver == insert_task \in {"ok", "errors", "failed"}

\* C6: the table holds at most one row per identifier, and no entity whose
\* identifier was stored when the call started is handed to the bulk insert.
C6_AtMostOncePerIdentifier ==
    /\ \A id \in Ids : stored[id] <= 1
    /\ insert_task # "none" =>
         \A i \in 1..Len(rows_to_insert) : stored0[rows_to_insert[i].identifier] = 0

\* C7: after the partition every entity of the batch has its row in exactly
\* one of rows_to_update and rows_to_insert, in rows_to_update exactly when
\* its identifier is in the scanned set, and both lists keep batch order.
C7_RowPartition ==
    Partitioned =>
        /\ Len(rows_to_insert) + Len(rows_to_update) = Len(entities)
        /\ \A i \in 1..Len(entities) :
             LET row == _prepare_entity_row(entities[i], schema_fields)
                 k   == Cardinality({ j \in 1..i :
                            entities[j].identifier \in existing_identifiers })
             IN  IF entities[i].identifier \in existing_identifiers
                 THEN k <= Len(rows_to_update) /\ rows_to_update[k] = row
                 ELSE i - k <= Len(rows_to_insert) /\ rows_to_insert[i - k] = row

\* C7 witness: scanned set {x1, x2}, batch [x1, x3]: x1 went to the updates
\* and x3 to the inserts.
C7_Witness ==
    /\ Partitioned
    /\ existing_identifiers = {"x1", "x2"}
    /\ Len(entities) = 2
    /\ entities[1].identifier = "x1"
    /\ entities[2].identifier = "x3"
    /\ Len(rows_to_update) = 1 /\ rows_to_update[1].identifier = "x1"
    /\ Len(rows_to_insert) = 1 /\ rows_to_insert[1].identifier = "x3"

\* The grouping part of C8: rows share a group exactly when their column
\* names without identifier are equal, every row is in exactly one group,
\* and every statement sets exactly the columns of its row's group.
C8_Grouping ==
    Grouped =>
        /\ \A i, j \in RowIdx : SameGroup(i, j) <=> KeysNoId(i) = KeysNoId(j)
        /\ \A i \in RowIdx :
             Cardinality({ <<g, k>> \in (1..Len(field_sets)) \X RowIdx :
                             /\ k <= Len(field_sets[g].rows)
                             /\ field_sets[g].rows[k] = i }) = 1
        /\ \A k \in 1..Len(statements) :
             /\ statements[k].set = KeysNoId(statements[k].row)
             /\ DOMAIN statements[k].params = statements[k].set
             /\ \E g \in 1..Len(field_sets) :
                  /\ statements[k].row \in GroupMembers(g)
                  /\ statements[k].set = field_sets[g].field_set

\* C8 (as stated): the grouping, and every row of rows_to_update yields
\* exactly one UPDATE statement, so that a finished call has submitted as
\* many statements as rows_to_update has rows.
C8_Original ==
    /\ C8_Grouping
    /\ ipc = "done" =>
         /\ \A i \in RowIdx : Cardinality(StatementsOf(i)) = 1
         /\ Len(statements) = Len(rows_to_update)

\* C8 (amended): the grouping, and every row of rows_to_update yields at
\* most one UPDATE statement: exactly one when its str values of TIMESTAMP
\* columns are ISO timestamps, none when one of them is not.
C8_UpdateGrouping ==
    /\ C8_Grouping
    /\ \A i \in RowIdx : Cardinality(StatementsOf(i)) <= 1
    /\ ipc = "done" =>
         \A i \in RowIdx :
            Cardinality(StatementsOf(i)) =
               IF ParameterError(table.schema, rows_to_update[i], KeysNoId(i))
               THEN 0 ELSE 1

\* C8 witness: a finished call with two update rows of one group and one
\* statement for each.
C8_Witness ==
    /\ ipc = "done"
    /\ Len(rows_to_update) = 2
    /\ Len(field_sets) = 1
    /\ Len(statements) = 2
    /\ statements[1].where # statements[2].where

\* C9: whichever of the bulk insert and the row updates fail, a finished
\* call has attempted the bulk insert and has submitted exactly one UPDATE
\* statement for every row whose statement could be built; the call never
\* raises once the table was fetched, and it can always go on to finish.
C9_FailureContainment ==
    /\ ipc = "done" =>
         /\ InsertOver
         /\ \A i \in RowIdx :
              /\ TaskOver(i)
              /\ ~ParameterError(table.schema, rows_to_update[i], KeysNoId(i))
                   => Cardinality(StatementsOf(i)) = 1
    /\ ipc = "raised" => insert_task = "none" /\ statements = <<>> /\ schema_fields = {}
    /\ ipc \in {"scan", "gather"} => ENABLED NextRows

\* C9 witness: a finished call whose bulk insert raised and whose first row
\* update failed, with the second row of the same group updated.
C9_Witness ==
    /\ ipc = "done"
    /\ insert_task = "failed"
    /\ Len(rows_to_update) = 2
    /\ Len(field_sets) = 1
    /\ tasks = <<"failed", "ok">>
    /\ Len(statements) = 2

\* C10: the call returns only after the bulk insert and every update task
\* are over, and the update fan-out never waits for the bulk insert: with
\* the insert in flight the update coroutine can start, its statements can
\* be submitted and can complete, and the insert can complete at any time.
C10_ConcurrentInsertAndUpdates ==
    /\ ipc = "done" =>
         /\ InsertOver
         /\ update_task = "done"
         /\ \A i \in RowIdx : TaskOver(i)
    /\ insert_task = "inflight" =>
         /\ ENABLED InsertReturns
         /\ update_task = "none" => ENABLED StartBulkUpdate
         /\ \A i \in DOMAIN tasks :
              /\ (tasks[i] = "created" /\ \A j \in GroupMembers(group_cur) :
                                            j < i => tasks[j] # "created")
                    => ENABLED SubmitUpdate(i)
              /\ tasks[i] = "query" => ENABLED QueryReturns(i)
              /\ tasks[i] = "result" => ENABLED ResultReturns(i)
         /\ (update_task = "running" /\ \A i \in GroupMembers(group_cur) : TaskOver(i))
              => ENABLED GroupGathered

\* C10 witness: every update statement has completed and the update
\* coroutine has returned while the bulk insert is still in flight.
C10_Witness ==
    /\ ipc = "gather"
    /\ insert_task = "inflight"
    /\ update_task = "done"
    /\ Len(statements) = 2
    /\ \A i \in RowIdx : tasks[i] = "ok"

\* C11: the update statements of one batch are all launched together: once
\* the update coroutine runs, every row of rows_to_update has its task, and
\* the next row to submit can be submitted while statements of other rows,
\* of its group or of another, are in flight.
C11_AllUpdatesConcurrent ==
    update_task = "running" =>
        /\ \A i \in RowIdx : tasks[i] # "none"
        /\ \A i \in RowIdx :
             ( /\ tasks[i] \in {"none", "created"}
               /\ \A j \in RowIdx : j < i => tasks[j] \notin {"none", "created"}
               /\ \E j \in RowIdx : tasks[j] \in {"query", "result"} )
                 => ENABLED SubmitUpdate(i)

----------------------------------------------------------------------------
(* Failure handling of the migration engine *)

AddCalls == { i \in DOMAIN calls : calls[i].by = "_add_fields_to_table" }

RemoveCalls == { i \in DOMAIN calls : calls[i].by = "_remove_fields_from_table" }

\* C12: under balanced or hard, a run in which the table fetch, the column
\* fetch or an alteration call failed has issued, right after the failed
\* call, one create-table call carrying the derived schema, and nothing else.
C12_FallbackCreate ==
    (auto_migrate # "weak" /\ pc = "done") =>
        \A i \in DOMAIN calls :
            (~calls[i].ok /\ calls[i].op \in {"get_table", "update_table"}) =>
                /\ Len(calls) = i + 1
                /\ calls[i + 1].op = "create_table"
                /\ calls[i + 1].schema = schema

\* C13 (as stated): after a failed alteration call the run issues no
\* further warehouse call and ends with the failure.
C13_Original ==
    \A i \in UpdateCalls :
        ~calls[i].ok =>
            /\ Len(calls) = i
            /\ pc = "done" => outcome = "raised"

\* C13 (amended): after a failed alteration call the run issues no further
\* alteration and exactly one create-table call carrying the derived schema;
\* that call fails on the table that is still there, and its failure ends
\* the run.
C13_AlterationFailure ==
    \A i \in UpdateCalls :
        ~calls[i].ok =>
            /\ \A j \in UpdateCalls : j <= i
            /\ pc \in {"create", "done"}
            /\ pc = "create" => Len(calls) = i
            /\ pc = "done" =>
                 /\ Len(calls) = i + 1
                 /\ calls[i + 1].op = "create_table"
                 /\ calls[i + 1].schema = schema
                 /\ ~calls[i + 1].ok
                 /\ outcome = "raised"

\* C13 witness: under hard the additive alteration was applied, the removal
\* alteration failed, and the create call that followed failed too.
C13_Witness ==
    /\ auto_migrate = "hard"
    /\ pc = "done"
    /\ Len(calls) = 5
    /\ calls[3].by = "_add_fields_to_table" /\ calls[3].ok
    /\ calls[4].by = "_remove_fields_from_table" /\ ~calls[4].ok
    /\ calls[5].op = "create_table" /\ ~calls[5].ok
    /\ outcome = "raised"

\* C14: under balanced or hard, a failure-free run that follows a failed
\* run with the same derived schema ends without error on a table holding
\* every derived column name, and exactly the derived names under hard.
C14_IdempotentRetry ==
    (auto_migrate # "weak" /\ run >= 2 /\ pc = "done" /\ ~prevClean /\ clean) =>
        /\ outcome \in {"unchanged", "altered", "created"}
        /\ table.exists
        /\ N0 \subseteq FieldNames(table.schema)
        /\ auto_migrate = "hard" => FieldNames(table.schema) = N0

\* C14 witness: under hard, a failure-free run after a failed one has added
\* and removed columns of the table the failed run left.
C14_Witness ==
    /\ auto_migrate = "hard"
    /\ run = 2
    /\ pc = "done"
    /\ ~prevClean /\ clean
    /\ outcome = "altered"
    /\ N0 \ E0 # {}
    /\ E0 \ N0 # {}
    /\ FieldNames(table.schema) = N0

\* C20: the calls of one run are strictly sequential: the column fetch
\* follows the successful table fetch, an alteration is issued only after
\* the column fetch has returned and the diff was computed from it, the
\* removal alteration only after the additive one (due whenever added is
\* not empty) has succeeded, and while one alteration is awaited no other
\* has been issued.
C20_SequentialCalls ==
    /\ Cardinality(FieldFetches) <= 1
    /\ Cardinality(AddCalls) <= 1
    /\ Cardinality(RemoveCalls) <= 1
    /\ \A i \in FieldFetches : i = 2 /\ calls[1].op = "get_table" /\ calls[1].ok
    /\ \A i \in AddCalls \cup RemoveCalls :
         \E j \in FieldFetches :
            /\ j < i
            /\ schema_changes =
                 _compare_schemas(IF calls[j].ok THEN E0 ELSE {}, N0)
    /\ \A i \in AddCalls : schema_changes.added # {} /\ i = 3
    /\ \A i \in RemoveCalls :
         /\ \A j \in AddCalls : j < i /\ calls[j].ok
         /\ schema_changes.added # {} => AddCalls # {}
         /\ i = Len(calls) \/ (i = Len(calls) - 1 /\ ~calls[i].ok)
    /\ pc = "add" => FieldFetches # {} /\ AddCalls = {} /\ RemoveCalls = {}
    /\ pc = "remove" =>
         /\ RemoveCalls = {}
         /\ \A j \in AddCalls : calls[j].ok
         /\ schema_changes.added # {} => AddCalls # {}

\* C20 witness: a hard run has issued table fetch, column fetch, additive
\* alteration and removal alteration, in that order.
C20_Witness ==
    /\ pc = "done"
    /\ Len(calls) = 4
    /\ calls[1].by = "create_or_update_table" /\ calls[1].op = "get_table"
    /\ calls[2].by = "_get_existing_schema_fields"
    /\ calls[3].by = "_add_fields_to_table"
    /\ calls[4].by = "_remove_fields_from_table"
    /\ \A i \in 1..4 : calls[i].ok

----------------------------------------------------------------------------
(* Properties of the schema mapper *)

BpProperties == Get(Get(blueprint, "schema", <<>>), "properties", <<>>)

BpRequired == Get(Get(blueprint, "schema", <<>>), "required", <<>>)

BpRelations == Get(blueprint, "relations", <<>>)

BpCalculations == Get(blueprint, "calculationProperties", <<>>)

BpAggregations == Get(blueprint, "aggregationProperties", <<>>)

BpMirrors == Get(blueprint, "mirrorProperties", <<>>)

\* The entries of the five sub-maps, in sub-map order and key order.
BpEntries == BpProperties \o BpRelations \o BpCalculations \o BpAggregations \o BpMirrors

NameTypeMode(f) == <<f.name, f.field_type, f.mode>>

ColumnNamesOf(d) == [i \in 1..Len(d) |-> d[i].name]

\* C15: every list _create_schema_from_blueprint returns is identifier
\* (STRING, REQUIRED), title (STRING, NULLABLE), created_at and updated_at
\* (TIMESTAMP, NULLABLE), then one NULLABLE column per entry of properties,
\* relations, calculationProperties, aggregationProperties and
\* mirrorProperties, in that order and in key order, whatever the required
\* list names; successive calls on the blueprint return equal lists.
C15_DerivedSchemaShape ==
    \A k \in 1..Len(derived) :
        LET d == derived[k]
        IN  /\ Len(d) = 4 + Len(BpEntries)
            /\ NameTypeMode(d[1]) = <<"identifier", "STRING", "REQUIRED">>
            /\ NameTypeMode(d[2]) = <<"title", "STRING", "NULLABLE">>
            /\ NameTypeMode(d[3]) = <<"created_at", "TIMESTAMP", "NULLABLE">>
            /\ NameTypeMode(d[4]) = <<"updated_at", "TIMESTAMP", "NULLABLE">>
            /\ \A i \in 1..Len(BpEntries) :
                 /\ d[4 + i].name = Key(BpEntries[i])
                 /\ d[4 + i].mode = "NULLABLE"
            /\ d = derived[1]

\* C15 witness: a blueprint whose required list names both of its
\* properties, with a relation and a mirror property, was derived twice.
C15_Witness ==
    /\ Len(derived) = 2
    /\ BpRequired = <<"url", "n">>
    /\ ColumnNamesOf(derived[2]) =
         <<"identifier", "title", "created_at", "updated_at",
           "n", "url", "owner", "m1">>

\* The mapping as documented, names compared without regard to case: the
\* format decides for type string with a non-empty format, the base type
\* otherwise.
DocumentedType(t, f) ==
    IF Lower(t) = "string" /\ f \notin {Null, ""}
    THEN IF Lower(f) = "date-time" THEN "TIMESTAMP" ELSE "STRING"
    ELSE CASE Lower(t) = "string"            -> "STRING"
           [] Lower(t) = "number"            -> "FLOAT64"
           [] Lower(t) = "boolean"           -> "BOOL"
           [] Lower(t) \in {"array", "object"} -> "STRING"
           [] Lower(t) = "datetime"          -> "TIMESTAMP"
           [] OTHER                          -> "STRING"

\* C16: _map_port_type_to_bigquery returns a scalar type for every type and
\* format: for type string with a non-empty format, TIMESTAMP for date-time
\* and STRING for every other format; otherwise STRING for string, FLOAT64
\* for number, BOOL for boolean, STRING for array and object, TIMESTAMP for
\* datetime and STRING for every other type.
C16_TypeMappingTotal ==
    /\ (port_type # Null /\ field_type = Null) => ENABLED MapPortType
    /\ field_type # Null =>
         /\ field_type \in {"STRING", "FLOAT64", "BOOL", "TIMESTAMP"}
         /\ field_type = DocumentedType(port_type, format)

\* C16 witness: type string with format date-time was mapped to TIMESTAMP.
C16_Witness ==
    /\ port_type = "string"
    /\ format = "date-time"
    /\ field_type = "TIMESTAMP"

\* The type the mapping rule gives the declared type and format of an entry.
RuleType(item) ==
    _map_port_type_to_bigquery(Get(Val(item), "type", "string"),
                               Get(Val(item), "format", Null))

RelationColumnsAsClaimed(d) ==
    \A i \in 1..Len(BpRelations) :
        LET f == d[4 + Len(BpProperties) + i]
        IN  /\ f.field_type = "STRING"
            /\ f.description = "JSON array of " \o Key(BpRelations[i]) \o " identifiers"
                 <=> Get(Val(BpRelations[i]), "many", FALSE)
            /\ ~Get(Val(BpRelations[i]), "many", FALSE) => f.description = Null

MappedColumnsAsClaimed(d) ==
    /\ \A i \in 1..Len(BpProperties) :
         d[4 + i].field_type = RuleType(BpProperties[i])
    /\ \A i \in 1..Len(BpCalculations) :
         d[4 + Len(BpProperties) + Len(BpRelations) + i].field_type
            = RuleType(BpCalculations[i])
    /\ \A i \in 1..Len(BpAggregations) :
         d[4 + Len(BpProperties) + Len(BpRelations) + Len(BpCalculations) + i].field_type
            = RuleType(BpAggregations[i])

MirrorColumn(d, i) ==
    d[4 + Len(BpProperties) + Len(BpRelations) + Len(BpCalculations)
        + Len(BpAggregations) + i]

\* C17 (as stated): the column of every entry of properties,
\* calculationProperties, aggregationProperties and mirrorProperties has the
\* type the mapping rule gives the entry's declared type and format; the
\* column of every relation is STRING, with the JSON-array description
\* exactly when the relation is many.
C17_Original ==
    \A k \in 1..Len(derived) :
        /\ MappedColumnsAsClaimed(derived[k])
        /\ RelationColumnsAsClaimed(derived[k])
        /\ \A i \in 1..Len(BpMirrors) :
             MirrorColumn(derived[k], i).field_type = RuleType(BpMirrors[i])

\* C17 (amended): the same for properties, calculationProperties and
\* aggregationProperties; the column of every relation and of every mirror
\* property is STRING whatever type the entry declares, the relation's with
\* the JSON-array description exactly when the relation is many.
C17_ColumnTypes ==
    \A k \in 1..Len(derived) :
        /\ MappedColumnsAsClaimed(derived[k])
        /\ RelationColumnsAsClaimed(derived[k])
        /\ \A i \in 1..Len(BpMirrors) :
             MirrorColumn(derived[k], i).field_type = "STRING"

\* C17 witness: a date-time property, a many relation that declares type
\* number and a mirror property that declares type number were derived as
\* TIMESTAMP, STRING with the JSON-array description, and STRING.
C17_Witness ==
    /\ Len(derived) >= 1
    /\ ColumnNamesOf(derived[1]) =
         <<"identifier", "title", "created_at", "updated_at",
           "when", "services", "m1">>
    /\ derived[1][5].field_type = "TIMESTAMP"
    /\ derived[1][6].field_type = "STRING"
    /\ derived[1][6].description = "JSON array of services identifiers"
    /\ derived[1][7].field_type = "STRING"

\* C18: no list _create_schema_from_blueprint returns holds two columns of
\* the same name.
C18_UniqueColumnNames ==
    \A k \in 1..Len(derived) : UniqueNames(derived[k])

----------------------------------------------------------------------------
(* Properties of the row shaper *)

MapKeys ==
    DOMAIN entity_in.properties \cup DOMAIN entity_in.relations
      \cup DOMAIN entity_in.calculationProperties
      \cup DOMAIN entity_in.aggregationProperties
      \cup DOMAIN entity_in.mirrorProperties

\* C19: the row _prepare_entity_row returns has the keys identifier, title,
\* created_at and updated_at, created_at (updated_at) being null when the
\* entity has no createdAt (updatedAt), and, of the keys of the entity's
\* property-class maps, exactly those in the column-name set; a list
\* relation is stored as its JSON text, a string relation and every other
\* value as it is.
C19_PreparedRow ==
    prepared # <<>> =>
        /\ BaseKeys \subseteq DOMAIN prepared
        /\ entity_in.createdAt = Null => prepared["created_at"] = Null
        /\ entity_in.updatedAt = Null => prepared["updated_at"] = Null
        /\ DOMAIN prepared \ BaseKeys = (MapKeys \cap column_names) \ BaseKeys
        /\ \A k \in DOMAIN entity_in.relations \cap column_names :
             prepared[k] = IF entity_in.relations[k].kind = "list"
                           THEN JsonDumps(entity_in.relations[k].v)
                           ELSE entity_in.relations[k].v[1]
        /\ \A k \in DOMAIN entity_in.properties \cap column_names :
             prepared[k] = entity_in.properties[k]
        /\ \A k \in DOMAIN entity_in.calculationProperties \cap column_names :
             prepared[k] = entity_in.calculationProperties[k]
        /\ \A k \in DOMAIN entity_in.aggregationProperties \cap column_names :
             prepared[k] = entity_in.aggregationProperties[k]
        /\ \A k \in DOMAIN entity_in.mirrorProperties \cap column_names :
             prepared[k] = entity_in.mirrorProperties[k]

----------------------------------------------------------------------------
(* Alterations of the migration engine *)

\* C21: the schema of the additive alteration is the schema of the table as
\* fetched, column for column, followed by the derived columns whose names
\* are in added, in derived order; once added is known to be non-empty the
\* run issues exactly one additive alteration, and a column of the table
\* whose derived type differs keeps its type when the alteration is applied.
C21_AdditiveOnly ==
    /\ \A i \in AddCalls :
         /\ schema_changes.added # {}
         /\ SubSeq(calls[i].schema, 1, Len(table0.schema)) = table0.schema
         /\ SubSeq(calls[i].schema, Len(table0.schema) + 1, Len(calls[i].schema))
              = SelectSeq(schema, LAMBDA f : f.name \in schema_changes.added)
         /\ (calls[i].ok /\ RemoveCalls = {}) =>
              /\ Len(table.schema) >= Len(table0.schema)
              /\ SubSeq(table.schema, 1, Len(table0.schema)) = table0.schema
    /\ (schema_changes.added # {} /\ pc \in {"remove", "create", "done"})
         => Cardinality(AddCalls) = 1
    /\ Cardinality(AddCalls) <= 1

\* C21 witness: the table held a as STRING, the derived schema has a as
\* FLOAT64 and a new column b; the alteration was applied and the table
\* holds a as STRING followed by b.
C21_Witness ==
    /\ auto_migrate = "balanced"
    /\ pc = "done"
    /\ table0 = Present(<<SchemaField("a", "STRING", "NULLABLE")>>)
    /\ schema = <<SchemaField("a", "FLOAT64", "NULLABLE"),
                  SchemaField("b", "STRING", "NULLABLE")>>
    /\ AddCalls # {}
    /\ table = Present(<<SchemaField("a", "STRING", "NULLABLE"),
                         SchemaField("b", "STRING", "NULLABLE")>>)

\* C22: under balanced, a failure-free run on a table with a column the
\* derived schema lacks has logged the names existing minus derived as
\* removal intent and has issued no removal alteration.
C22_BalancedRemovalIntent ==
    ( /\ auto_migrate = "balanced"
      /\ table0.exists
      /\ pc = "done"
      /\ clean
      /\ E0 \ N0 # {} ) =>
        /\ removal_intent = E0 \ N0
        /\ RemoveCalls = {}

\* C26: with a derived schema of distinct names, no alteration call carries
\* a schema with two columns of the same name, and the names handed to
\* _add_fields_to_table are none of the names of the table being altered.
C26_NoDuplicateColumns ==
    UniqueNames(schema) =>
        /\ \A i \in UpdateCalls : UniqueNames(calls[i].schema)
        /\ \A i \in AddCalls : schema_changes.added \cap E0 = {}

----------------------------------------------------------------------------
(* Identity of the rows routed to the update *)

\* The entities of the batch whose rows are in rows_to_update, in batch
\* order.
UpdatedEntities ==
    SelectSeq(entities, LAMBDA e : e.identifier \in existing_identifiers)

\* C27: every UPDATE statement binds, in its WHERE predicate, the identifier
\* of the entity its row was shaped from, and that row's title, created_at
\* and updated_at are the entity's top-level title, createdAt and updatedAt.
C27_OwnIdentifier ==
    Partitioned =>
        \A k \in 1..Len(statements) :
            LET i == statements[k].row
                e == UpdatedEntities[i]
            IN  /\ statements[k].where = e.identifier
                /\ rows_to_update[i]["title"] = e.title
                /\ rows_to_update[i]["created_at"] = e.createdAt
                /\ rows_to_update[i]["updated_at"] = e.updatedAt

----------------------------------------------------------------------------
(* Properties of the catalog client *)

\* The requests of the current call that carry the token.
CatalogRequests == { i \in DOMAIN requests : requests[i].kind # "access_token" }

\* The page requests of the current search_entities call, in order.
PageRequests == SelectSeq(requests, LAMBDA r : r.kind = "search_entities")

CarriesCursor(response_data) ==
    /\ "next" \in DOMAIN response_data
    /\ response_data["next"] \notin {Null, ""}

\* C23: every request sent to the catalog, the blueprint fetch and each
\* page request of search_entities, carries a token, and the expiry time of
\* that token has not passed when the request is sent.
C23_NoRequestWithExpiredToken ==
    \A i \in CatalogRequests :
        /\ requests[i].headers = BearerHeaders
        /\ ~requests[i].expired

\* C24: search_entities has yielded the entities of each response, in
\* response order; the first page request carries the configured query and
\* each following one the cursor of the response before it; a request
\* follows a response only if that response carries a cursor, and the
\* generator is exhausted exactly at the first response without one, after
\* as many requests as responses.
C24_Pagination ==
    /\ Len(yielded) = Len(responses)
    /\ \A k \in 1..Len(responses) :
         yielded[k] = IF "entities" \in DOMAIN responses[k]
                      THEN responses[k]["entities"] ELSE <<>>
    /\ Len(PageRequests) >= 1 => PageRequests[1].query = search_query
    /\ \A k \in 2..Len(PageRequests) :
         /\ k - 1 <= Len(responses)
         /\ CarriesCursor(responses[k - 1])
         /\ "from" \in DOMAIN PageRequests[k].query
         /\ PageRequests[k].query["from"] = responses[k - 1]["next"]
    /\ Len(responses) <= Len(PageRequests)
    /\ cat_result = "exhausted" =>
         /\ Len(responses) >= 1
         /\ ~CarriesCursor(responses[Len(responses)])
         /\ \A k \in 1..(Len(responses) - 1) : CarriesCursor(responses[k])
         /\ Len(PageRequests) = Len(responses)
    /\ (cat_pc = "search_entities_yield"
          /\ ~CarriesCursor(responses[Len(responses)])) =>
         /\ ENABLED SearchResumes
         /\ Len(PageRequests) = Len(responses)

\* C24 witness: the catalog answered three requests, the first two with the
\* cursors c1 and c2 and the third with none; three pages were yielded and
\* the generator is exhausted.
C24_Witness ==
    /\ cat_result = "exhausted"
    /\ Len(yielded) = 3
    /\ Len(PageRequests) = 3
    /\ responses[1]["next"] = "c1"
    /\ responses[2]["next"] = "c2"
    /\ PageRequests[3].query["from"] = "c2"
    /\ yielded[3] = <<"x1">>

----------------------------------------------------------------------------
(* Properties of the run loop *)

\* C25: when the export of a blueprint has failed, export_blueprint has
\* still been called for every blueprint of the configured list.
C25_LaterBlueprintsExported ==
    (mpc = "raised" /\ failed_at \in ExportSteps) => bp_idx = Len(blueprints)

\* C28: once every blueprint has been exported without failure, the run
\* ends by returning, having called cleanup_duplicates once per blueprint in
\* list order; no cleanup is called before the last export has returned.
C28_CleanupAfterExports ==
    /\ (mpc \in {"returned", "raised"} /\ exports_returned = Len(blueprints)) =>
         /\ mpc = "returned"
         /\ cleanups = blueprints
    /\ cleanups # <<>> => exports_returned = Len(blueprints)

====
